---- MODULE Spec2Model ----
(***************************************************************************)
(* The userspace network stack and connection-dispatch layer of ligolo-mp  *)
(* (package netstack): NewStack / NetStack.new, the TCP and UDP forwarder  *)
(* callbacks, SetConnPool, TunConn.Terminate and NetStack.Destroy.         *)
(*                                                                         *)
(* The ConnPool type, the echo responder (icmpResponder) and the inflight  *)
(* table of the TCP forwarder are not part of the sources at hand; they    *)
(* are modelled from the written specification (sections 4.2 - 4.4).       *)
(*                                                                         *)
(* AssetService.CompileAgent (package asset) is modelled beside it: it     *)
(* shares no state with the network stack.                                 *)
(***************************************************************************)
EXTENDS Integers, Naturals, Sequences, FiniteSets, TLC

\* ------------------------------------------------------------------ bounds
NumReq       == 2   \* flows that reach the stack
NumPools     == 2   \* ConnPool instances that exist
PoolCap      == 1   \* capacity of a (bounded) ConnPool
MaxInflight  == 1   \* StackSettings.MaxInflight
MaxTerminate == 2   \* Terminate calls made by consumers
MaxDestroy   == 2   \* Destroy calls per stack
MaxEcho      == 1   \* echo replies written by the responder

MaxBuilds    == 2   \* CompileAgent calls

Req     == 1..NumReq
Builds  == 1..MaxBuilds
Pools   == 1..NumPools
NilPool == 0
PoolRefs == {NilPool} \cup Pools
Calls   == 1..MaxDestroy
NoOwner == 0

VARIABLES
  built,        \* outcome of NewStack: "none" (not called), "ok", or the error
  handle,       \* NewStack returned a non-nil *NetStack
  fd,           \* s.fd: "unset" (zero value), "open", "closed"
  nic,          \* NIC 1 exists in the engine
  responder,    \* echo responder: "none" (s.closeChan nil), "running", "stopped"
  engine,       \* s.stack: "none", "live", "destroyed"
  s_pool,       \* s.pool, the active pool reference
  mutex,        \* holder of the NetStack mutex (NoOwner or a request's callback)
  pools,        \* ConnPool state: queue and closed flag
  delivered,    \* delivered[r]: pool a consumer received r from (NilPool: none)
  pc,           \* position of the forwarder activation for request r
  proto,        \* protocol tag of request r
  inFlight,     \* the TCP forwarder's inflight table
  synIgnored,   \* SYNs ignored by the TCP forwarder at the cap
  result,       \* what the forwarder callback did with r
  addedTo,      \* pool whose Add accepted r
  activeAtAdd,  \* s.pool at the moment r was accepted
  terminateCalls, \* Terminate calls made on r
  completeCalls,  \* Request.Complete calls made on r (each one acts on the network)
  dpc,          \* position of Destroy call d
  dret,         \* return value of Destroy call d
  echoes,       \* echo replies written to the interface
  lateWrite,    \* the responder wrote to the interface when fd was not open
  policy,       \* the engine's settings (routes, NIC flags, protocol options)
  tag,          \* TunConn.Protocol of the TunConn the callback built for r
  cpc,          \* position of CompileAgent call b
  cdir,         \* the per-build agent directory of call b
  cret          \* what CompileAgent call b returned

vars == <<built, handle, fd, nic, responder, engine, s_pool, mutex,
          pools, delivered, pc, proto, inFlight, synIgnored, result,
          addedTo, activeAtAdd, terminateCalls, completeCalls,
          dpc, dret, echoes, lateWrite, policy, tag, cpc, cdir, cret>>

stackVars == <<built, handle, fd, nic, responder, engine>>
fwdVars   == <<pc, proto, inFlight, synIgnored, result, addedTo, activeAtAdd>>
termVars  == <<terminateCalls, completeCalls>>
dVars     == <<dpc, dret>>
echoVars  == <<echoes, lateWrite>>
assetVars == <<cpc, cdir, cret>>

\* The engine as stack.New leaves it: nothing of the policy configured yet.
EngineDefaults ==
  [routes |-> {}, promiscuous |-> "default", spoofing |-> "default",
   forwarding4 |-> "default", forwarding6 |-> "default",
   sack |-> "default", synCookies |-> "default",
   icmpLimit |-> "default", icmpBurst |-> "default"]

Init ==
  /\ built = "none" /\ handle = FALSE /\ fd = "unset" /\ nic = FALSE
  /\ responder = "none" /\ engine = "none"
  /\ s_pool = NilPool /\ mutex = NoOwner
  /\ pools = [p \in Pools |-> [queue |-> <<>>, closed |-> FALSE]]
  /\ delivered = [r \in Req |-> NilPool]
  /\ pc = [r \in Req |-> "idle"]
  /\ proto = [r \in Req |-> "none"]
  /\ inFlight = {} /\ synIgnored = {}
  /\ result = [r \in Req |-> "none"]
  /\ addedTo = [r \in Req |-> NilPool]
  /\ activeAtAdd = [r \in Req |-> NilPool]
  /\ terminateCalls = [r \in Req |-> 0]
  /\ completeCalls = [r \in Req |-> 0]
  /\ dpc = [d \in Calls |-> "idle"]
  /\ dret = [d \in Calls |-> "none"]
  /\ echoes = 0 /\ lateWrite = FALSE
  /\ policy = EngineDefaults
  /\ tag = [r \in Req |-> "none"]
  /\ cpc = [b \in Builds |-> "idle"]
  /\ cdir = [b \in Builds |-> "none"]
  /\ cret = [b \in Builds |-> "none"]

\* ------------------------------------------------------- NewStack / new
Outcomes == {"ok", "InterfaceOpenFailed", "NICCreationFailed", "ResponderFailed"}

\* NewStack returns &ns whatever ns.new returned.
NewStackHandle(outcome) == TRUE

\* s.fd after new: tun.Open's descriptor is stored as soon as Open succeeded
\* and no failure path closes it.
FdAfterNew(outcome) ==
  IF outcome = "InterfaceOpenFailed" THEN "unset" ELSE "open"

\* A startup that follows its own comment "Enable TCP SACK".
PolicyAfterNewSackOn(outcome) ==
  IF outcome = "ok"
    THEN [routes |-> {<<"0.0.0.0/0", "nic1">>, <<"::/0", "nic1">>},
          promiscuous |-> TRUE, spoofing |-> TRUE,
          forwarding4 |-> FALSE, forwarding6 |-> FALSE,
          sack |-> TRUE, synCookies |-> FALSE,
          icmpLimit |-> 0, icmpBurst |-> 0]
    ELSE [EngineDefaults EXCEPT !.icmpLimit = 0, !.icmpBurst = 0]

\* The engine's settings when new returns: SetICMPLimit(0) and SetICMPBurst(0)
\* come before every failure point, the route table, the forwarding, SACK and
\* SYN-cookie options and the NIC flags after the last one.
PolicyAfterNew(outcome) ==
  IF outcome = "ok"
    THEN [routes |-> {<<"0.0.0.0/0", "nic1">>, <<"::/0", "nic1">>},
          promiscuous |-> TRUE, spoofing |-> TRUE,
          forwarding4 |-> FALSE, forwarding6 |-> FALSE,
          sack |-> FALSE, synCookies |-> FALSE,
          icmpLimit |-> 0, icmpBurst |-> 0]
    ELSE [EngineDefaults EXCEPT !.icmpLimit = 0, !.icmpBurst = 0]

NewStack(connPool, outcome) ==
  /\ built = "none"
  /\ policy' = PolicyAfterNew(outcome)
  /\ built' = outcome
  /\ handle' = NewStackHandle(outcome)
  /\ s_pool' = connPool
  /\ engine' = "live"
  /\ fd' = FdAfterNew(outcome)
  /\ nic' = (outcome \in {"ok", "ResponderFailed"})
  /\ responder' = IF outcome = "ok" THEN "running" ELSE "none"
  /\ UNCHANGED <<tag, assetVars>>
  /\ UNCHANGED <<mutex, pools, delivered, fwdVars, termVars, dVars, echoVars>>

\* ------------------------------------------------------- SetConnPool
\* A swap that also empties the pool it supersedes.
PoolsAfterSwapDrained(connPool) ==
  IF s_pool = NilPool THEN pools ELSE [pools EXCEPT ![s_pool].queue = <<>>]

\* What the critical section of SetConnPool does to the pools themselves.
PoolsAfterSwap(connPool) == pools

\* s.Lock(); s.pool = connPool; s.Unlock()
SetConnPool(connPool) ==
  /\ handle /\ mutex = NoOwner
  /\ s_pool' = connPool
  /\ pools' = PoolsAfterSwap(connPool)
  /\ UNCHANGED <<policy, tag, assetVars>>
  /\ UNCHANGED <<stackVars, mutex, delivered, fwdVars, termVars, dVars, echoVars>>

\* ------------------------------------------------------- ConnPool
PoolIsClosed(p) == pools[p].closed

\* An Add that never looks at the closed flag.
AddNeverFails(p) == FALSE

\* Add fails with PoolClosed on a closed pool.
AddFails(p) == PoolIsClosed(p)

\* Add on a full open pool waits for room (the pool is bounded).
AddBlocks(p) == ~PoolIsClosed(p) /\ Len(pools[p].queue) >= PoolCap

\* Add on an open pool with room: first in, first out.
Enqueue(p, r) == [pools EXCEPT ![p].queue = Append(@, r)]

\* Close marks the pool closed; what is queued is not terminated by the pool.
PoolClose(p) ==
  /\ ~PoolIsClosed(p)
  /\ pools' = [pools EXCEPT ![p].closed = TRUE]
  /\ UNCHANGED <<policy, tag, assetVars>>
  /\ UNCHANGED <<stackVars, s_pool, mutex, delivered, fwdVars, termVars,
                 dVars, echoVars>>

\* A consumer takes the oldest request of an open pool.
PoolGet(p) ==
  /\ ~PoolIsClosed(p) /\ pools[p].queue # <<>>
  /\ delivered' = [delivered EXCEPT ![Head(pools[p].queue)] = p]
  /\ pools' = [pools EXCEPT ![p].queue = Tail(@)]
  /\ UNCHANGED <<policy, tag, assetVars>>
  /\ UNCHANGED <<stackVars, s_pool, mutex, fwdVars, termVars, dVars, echoVars>>

\* ------------------------------------------------------- forwarders
\* Packets reach the engine through the NIC bound to the open interface.
Receiving == nic /\ fd = "open" /\ engine = "live"

NextFlow(r) == pc[r] = "idle" /\ \A q \in Req : q < r => pc[q] # "idle"

\* A forwarder built with a cap one above the setting.
ForwarderCapOffByOne == MaxInflight + 1

\* tcp.NewForwarder(ns, 0, stackSettings.MaxInflight, ...)
ForwarderCap == MaxInflight

\* The TCP forwarder progresses a SYN only below its inflight cap.
Admits == Cardinality(inFlight) < ForwarderCap

\* A new TCP flow: the forwarder records it inflight and starts the callback.
TcpArrive(r) ==
  /\ Receiving /\ NextFlow(r) /\ Admits
  /\ inFlight' = inFlight \cup {r}
  /\ proto' = [proto EXCEPT ![r] = "tcp"]
  /\ pc' = [pc EXCEPT ![r] = "lock"]
  /\ UNCHANGED <<policy, tag, assetVars>>
  /\ UNCHANGED <<stackVars, s_pool, mutex, pools, delivered, synIgnored,
                 result, addedTo, activeAtAdd, termVars, dVars, echoVars>>

\* A SYN beyond the cap is not progressed.
TcpSynIgnored(r) ==
  /\ Receiving /\ NextFlow(r) /\ ~Admits /\ r \notin synIgnored
  /\ synIgnored' = synIgnored \cup {r}
  /\ UNCHANGED <<policy, tag, assetVars>>
  /\ UNCHANGED <<stackVars, s_pool, mutex, pools, delivered, pc, proto,
                 inFlight, result, addedTo, activeAtAdd, termVars, dVars, echoVars>>

\* A new UDP flow starts the UDP callback.
UdpArrive(r) ==
  /\ Receiving /\ NextFlow(r)
  /\ proto' = [proto EXCEPT ![r] = "udp"]
  /\ pc' = [pc EXCEPT ![r] = "lock"]
  /\ UNCHANGED <<policy, tag, assetVars>>
  /\ UNCHANGED <<stackVars, s_pool, mutex, pools, delivered, inFlight,
                 synIgnored, result, addedTo, activeAtAdd, termVars, dVars, echoVars>>

\* A callback that keeps using the pool the stack was constructed with.
PoolRefStale == CHOOSE p \in Pools : \A q \in Pools : p <= q

\* The pool reference the callback reads inside its critical section.
PoolRef == s_pool

\* A check that forgets Closed().
PoolUnusableNilOnly(p) == p = NilPool

\* s.pool == nil || s.pool.Closed()
PoolUnusable(p) == p = NilPool \/ PoolIsClosed(p)

\* s.Lock(); defer s.Unlock(); if s.pool == nil || s.pool.Closed() { return }
ForwarderCheck(r) ==
  /\ pc[r] = "lock" /\ mutex = NoOwner
  /\ IF PoolUnusable(PoolRef)
       THEN /\ pc' = [pc EXCEPT ![r] = "done"]
            /\ result' = [result EXCEPT ![r] = "dropped"]
            /\ UNCHANGED mutex
       ELSE /\ pc' = [pc EXCEPT ![r] = "add"]
            /\ mutex' = r
            /\ UNCHANGED result
  /\ UNCHANGED <<policy, tag, assetVars>>
  /\ UNCHANGED <<stackVars, s_pool, pools, delivered, proto, inFlight,
                 synIgnored, addedTo, activeAtAdd, termVars, dVars, echoVars>>

\* Both callbacks tag the request with TCP's protocol number.
TagOfAlwaysTcp(kind) == "tcp"

\* The UDP callback tags its request with the ICMPv4 protocol number.
TagOfIcmpForUdp(kind) == IF kind = "udp" THEN "icmp" ELSE kind

\* TunConn{tcp.ProtocolNumber, tcpConn} / TunConn{udp.ProtocolNumber, udpConn}:
\* the Protocol field the callback of the given kind writes.
TagOf(kind) == kind

\* A callback that unlocks on the success path only.
MutexAfterAddHeldOnError(r, failed) == IF failed THEN r ELSE NoOwner

\* defer s.Unlock(): the mutex is released when the callback returns.
MutexAfterAdd(r, failed) == NoOwner

\* What the callback does to the request when Add returned an error: slog.Error.
CompleteCallsAfterAddError(r) == completeCalls

\* if err := s.pool.Add(TunConn{...}); err != nil { slog.Error(...) }; unlock
ForwarderAdd(r) ==
  /\ pc[r] = "add" /\ mutex = r
  /\ LET p == PoolRef IN
       \/ /\ AddFails(p)
          /\ result' = [result EXCEPT ![r] = "PoolClosed"]
          /\ completeCalls' = CompleteCallsAfterAddError(r)
          /\ mutex' = MutexAfterAdd(r, TRUE)
          /\ UNCHANGED <<pools, addedTo, activeAtAdd, tag>>
       \/ /\ ~AddFails(p) /\ ~AddBlocks(p)
          /\ pools' = Enqueue(p, r)
          /\ result' = [result EXCEPT ![r] = "added"]
          /\ addedTo' = [addedTo EXCEPT ![r] = p]
          /\ activeAtAdd' = [activeAtAdd EXCEPT ![r] = s_pool]
          /\ tag' = [tag EXCEPT ![r] = TagOf(proto[r])]
          /\ mutex' = MutexAfterAdd(r, FALSE)
          /\ UNCHANGED completeCalls
  /\ pc' = [pc EXCEPT ![r] = "done"]
  /\ UNCHANGED <<policy, assetVars>>
  /\ UNCHANGED <<stackVars, s_pool, delivered, proto, inFlight, synIgnored,
                 terminateCalls, dVars, echoVars>>

\* ------------------------------------------------------- Terminate
\* t.Protocol == tcp.ProtocolNumber, on the TunConn a consumer holds.
IsTCP(r) == tag[r] = "tcp"

\* t.Protocol == udp.ProtocolNumber
IsUDP(r) == tag[r] = "udp"

\* t.Protocol == icmp.ProtocolNumber4
IsICMP(r) == tag[r] = "icmp"

\* t.Handler.(TCPConn), (UDPConn), (ICMPConn): the assertion succeeds only on
\* the variant the callback stored, which is the one of its own forwarder.
GetTCP(r) == proto[r] = "tcp"
GetUDP(r) == proto[r] = "udp"
GetICMP(r) == proto[r] = "icmp"

RECURSIVE SumUpTo(_, _)
SumUpTo(f, n) == IF n = 0 THEN 0 ELSE f[n] + SumUpTo(f, n - 1)

TerminationsMade == SumUpTo(terminateCalls, NumReq)

\* A Terminate that completes the request whatever its kind.
CallsCompleteAlways(r) == TRUE

\* Request.Complete(reset) is called whenever the request is TCP.
CallsComplete(r) == IsTCP(r)

\* Terminate(reset) by the consumer that holds the request.
Terminate(r, reset) ==
  /\ delivered[r] # NilPool /\ TerminationsMade < MaxTerminate
  /\ terminateCalls' = [terminateCalls EXCEPT ![r] = @ + 1]
  /\ IF CallsComplete(r)
       THEN /\ completeCalls' = [completeCalls EXCEPT ![r] = @ + 1]
            /\ inFlight' = inFlight \ {r}
       ELSE UNCHANGED <<completeCalls, inFlight>>
  /\ UNCHANGED <<policy, tag, assetVars>>
  /\ UNCHANGED <<stackVars, s_pool, mutex, pools, delivered, pc, proto,
                 synIgnored, result, addedTo, activeAtAdd, dVars, echoVars>>

\* ------------------------------------------------------- echo responder
EchoRequest ==
  /\ responder = "running" /\ Receiving /\ echoes < MaxEcho
  /\ responder' = "replying"
  /\ echoes' = echoes + 1
  /\ UNCHANGED <<policy, tag, assetVars>>
  /\ UNCHANGED <<built, handle, fd, nic, engine, s_pool, mutex,
                 pools, delivered, fwdVars, termVars, dVars, lateWrite>>

EchoReply ==
  /\ responder = "replying"
  /\ responder' = "running"
  /\ lateWrite' = (lateWrite \/ fd # "open")
  /\ UNCHANGED <<policy, tag, assetVars>>
  /\ UNCHANGED <<built, handle, fd, nic, engine, s_pool, mutex,
                 pools, delivered, fwdVars, termVars, dVars, echoes>>

\* ------------------------------------------------------- Destroy
\* A teardown that closes the descriptor before stopping the responder.
DestroyOrderCloseFirst == <<"close", "signal", "release">>

\* The statements of Destroy, in source order.
DestroyOrder == <<"signal", "close", "release">>

StepAfter(step) ==
  LET i == CHOOSE k \in 1..Len(DestroyOrder) : DestroyOrder[k] = step
  IN IF i < Len(DestroyOrder) THEN DestroyOrder[i + 1] ELSE "done"

Advance(d) ==
  /\ dpc' = [dpc EXCEPT ![d] = StepAfter(dpc[d])]
  /\ dret' = [dret EXCEPT ![d] = IF StepAfter(dpc[d]) = "done" THEN "nil" ELSE @]

DestroyCall(d) ==
  /\ handle /\ dpc[d] = "idle" /\ \A e \in Calls : e < d => dpc[e] # "idle"
  /\ dpc' = [dpc EXCEPT ![d] = DestroyOrder[1]]
  /\ UNCHANGED <<policy, tag, assetVars>>
  /\ UNCHANGED <<stackVars, s_pool, mutex, pools, delivered, fwdVars,
                 termVars, dret, echoVars>>

\* s.closeChan <- true : completes when the running responder receives it.
DestroySignal(d) ==
  /\ dpc[d] = "signal" /\ responder = "running"
  /\ responder' = "stopped"
  /\ Advance(d)
  /\ UNCHANGED <<policy, tag, assetVars>>
  /\ UNCHANGED <<built, handle, fd, nic, engine, s_pool, mutex,
                 pools, delivered, fwdVars, termVars, echoVars>>

\* if err := unix.Close(s.fd); err != nil { return err }
DestroyClose(d) ==
  /\ dpc[d] = "close"
  /\ \/ /\ fd = "open" /\ fd' = "closed" /\ Advance(d)
     \/ /\ fd = "open" /\ fd' \in {"open", "closed"}
        /\ dpc' = [dpc EXCEPT ![d] = "done"]
        /\ dret' = [dret EXCEPT ![d] = "err"]
     \/ /\ fd = "closed" /\ fd' = fd
        /\ dpc' = [dpc EXCEPT ![d] = "done"]
        /\ dret' = [dret EXCEPT ![d] = "err"]
     \/ /\ fd = "unset" /\ fd' = fd /\ Advance(d)
  /\ UNCHANGED <<policy, tag, assetVars>>
  /\ UNCHANGED <<built, handle, nic, responder, engine, s_pool, mutex,
                 pools, delivered, fwdVars, termVars, echoVars>>

\* s.stack.Destroy()
DestroyRelease(d) ==
  /\ dpc[d] = "release"
  /\ engine' = "destroyed"
  /\ Advance(d)
  /\ UNCHANGED <<policy, tag, assetVars>>
  /\ UNCHANGED <<built, handle, fd, nic, responder, s_pool, mutex,
                 pools, delivered, fwdVars, termVars, echoVars>>

\* ------------------------------------------------------- CompileAgent
\* Everything of the model that belongs to the network stack.
netVars == <<stackVars, s_pool, mutex, pools, delivered, fwdVars, termVars,
             dVars, echoVars, policy, tag>>

Return(b, value) ==
  /\ cpc' = [cpc EXCEPT ![b] = "done"]
  /\ cret' = [cret EXCEPT ![b] = value]

\* The checks of the server list and of the proxy URL, before anything is
\* written to disk.
CompileValidate(b, valid) ==
  /\ cpc[b] = "idle"
  /\ IF valid
       THEN cpc' = [cpc EXCEPT ![b] = "setup"] /\ UNCHANGED cret
       ELSE Return(b, "InvalidInput")
  /\ UNCHANGED <<cdir, netVars>>

\* setupAgentDir, called first by renderAgent: a fresh directory named by
\* xid.New() with src and bin below it. A failing MkdirAll returns the error
\* and removes nothing it had already created.
SetupAgentDir(b, outcome) ==
  /\ cpc[b] = "setup"
  /\ \/ /\ outcome = "ok"
        /\ cdir' = [cdir EXCEPT ![b] = "created"]
        /\ cpc' = [cpc EXCEPT ![b] = "render"] /\ UNCHANGED cret
     \/ /\ outcome = "MkdirFailed"
        /\ UNCHANGED cdir
        /\ Return(b, "RenderFailed")
     \/ /\ outcome = "MkdirSubdirFailed"
        /\ cdir' = [cdir EXCEPT ![b] = "created"]
        /\ Return(b, "RenderFailed")
  /\ UNCHANGED netVars

\* The rest of renderAgent: unpack the agent archive into src, execute the
\* template with the certificate and key, write src/agent.go. Every error
\* return leaves the directory as it is.
RenderAgent(b, outcome) ==
  /\ cpc[b] = "render"
  /\ \/ /\ outcome = "ok"
        /\ cdir' = [cdir EXCEPT ![b] = "rendered"]
        /\ cpc' = [cpc EXCEPT ![b] = "build"] /\ UNCHANGED cret
     \/ /\ outcome = "TemplateFailed"
        /\ UNCHANGED cdir
        /\ Return(b, "RenderFailed")
     \/ /\ outcome = "WriteFailed"
        /\ cdir' = [cdir EXCEPT ![b] = "rendered"]
        /\ Return(b, "RenderFailed")
  /\ UNCHANGED netVars

\* gogo.GoBuild(...); if err != nil { return nil, err }
GoBuild(b, ok) ==
  /\ cpc[b] = "build"
  /\ IF ok
       THEN cpc' = [cpc EXCEPT ![b] = "read"] /\ UNCHANGED cret
       ELSE Return(b, "BuildFailed")
  /\ UNCHANGED <<cdir, netVars>>

\* os.ReadFile(destination); if err != nil { return nil, err }
ReadBinary(b, ok) ==
  /\ cpc[b] = "read"
  /\ IF ok
       THEN cpc' = [cpc EXCEPT ![b] = "remove"] /\ UNCHANGED cret
       ELSE Return(b, "ReadFailed")
  /\ UNCHANGED <<cdir, netVars>>

\* os.RemoveAll(agentDir), reached on the successful path only.
RemoveAgentDir(b, ok) ==
  /\ cpc[b] = "remove"
  /\ IF ok
       THEN cdir' = [cdir EXCEPT ![b] = "removed"] /\ Return(b, "binary")
       ELSE UNCHANGED cdir /\ Return(b, "RemoveFailed")
  /\ UNCHANGED netVars

\* ------------------------------------------------------- specifications
\* The pool NewStack was given (the pools are interchangeable).
FirstPool == CHOOSE p \in Pools : \A q \in Pools : p <= q

\* The state NewStack(settings, FirstPool) leaves when it returns no error.
InitServing ==
  /\ built = "ok" /\ handle = NewStackHandle("ok") /\ fd = FdAfterNew("ok")
  /\ nic = TRUE /\ responder = "running" /\ engine = "live"
  /\ s_pool = FirstPool /\ mutex = NoOwner
  /\ pools = [p \in Pools |-> [queue |-> <<>>, closed |-> FALSE]]
  /\ delivered = [r \in Req |-> NilPool]
  /\ pc = [r \in Req |-> "idle"]
  /\ proto = [r \in Req |-> "none"]
  /\ inFlight = {} /\ synIgnored = {}
  /\ result = [r \in Req |-> "none"]
  /\ addedTo = [r \in Req |-> NilPool]
  /\ activeAtAdd = [r \in Req |-> NilPool]
  /\ terminateCalls = [r \in Req |-> 0]
  /\ completeCalls = [r \in Req |-> 0]
  /\ dpc = [d \in Calls |-> "idle"]
  /\ dret = [d \in Calls |-> "none"]
  /\ echoes = 0 /\ lateWrite = FALSE
  /\ policy = PolicyAfterNew("ok")
  /\ tag = [r \in Req |-> "none"]
  /\ cpc = [b \in Builds |-> "idle"]
  /\ cdir = [b \in Builds |-> "none"]
  /\ cret = [b \in Builds |-> "none"]

\* Flow dispatch on a constructed stack: forwarders, pool owners and consumers,
\* and SetConnPool callers, in any interleaving.
Next ==
  \/ \E p \in PoolRefs : SetConnPool(p)
  \/ \E p \in Pools : PoolClose(p)
  \/ \E p \in Pools : PoolGet(p)
  \/ \E r \in Req : TcpArrive(r)
  \/ \E r \in Req : TcpSynIgnored(r)
  \/ \E r \in Req : UdpArrive(r)
  \/ \E r \in Req : ForwarderCheck(r)
  \/ \E r \in Req : ForwarderAdd(r)
  \/ \E r \in Req, reset \in BOOLEAN : Terminate(r, reset)

Spec == InitServing /\ [][Next]_vars

\* The life of a stack: construction, the echo responder, pool swaps, teardown.
NextLife ==
  \/ \E p \in PoolRefs, o \in Outcomes : NewStack(p, o)
  \/ \E p \in PoolRefs : SetConnPool(p)
  \/ EchoRequest
  \/ EchoReply
  \/ \E d \in Calls : DestroyCall(d)
  \/ \E d \in Calls : DestroySignal(d)
  \/ \E d \in Calls : DestroyClose(d)
  \/ \E d \in Calls : DestroyRelease(d)

SpecLife == Init /\ [][NextLife]_vars

\* A constructed stack that serves flows and echo requests while Destroy is
\* called on it; its pool is neither swapped nor closed.
NextServe ==
  \/ \E p \in Pools : PoolGet(p)
  \/ \E r \in Req : TcpArrive(r)
  \/ \E r \in Req : UdpArrive(r)
  \/ \E r \in Req : ForwarderCheck(r)
  \/ \E r \in Req : ForwarderAdd(r)
  \/ EchoRequest
  \/ EchoReply
  \/ \E d \in Calls : DestroyCall(d)
  \/ \E d \in Calls : DestroySignal(d)
  \/ \E d \in Calls : DestroyClose(d)
  \/ \E d \in Calls : DestroyRelease(d)

SpecServe == InitServing /\ [][NextServe]_vars

\* Producers against pools nobody takes from: flows arrive, the pool owner
\* closes pools and SetConnPool swaps them. A callback whose Add can return is
\* a runnable goroutine, and the scheduler runs it.
NextUnblock ==
  \/ \E p \in PoolRefs : SetConnPool(p)
  \/ \E p \in Pools : PoolClose(p)
  \/ \E r \in Req : TcpArrive(r)
  \/ \E r \in Req : UdpArrive(r)
  \/ \E r \in Req : ForwarderCheck(r)
  \/ \E r \in Req : ForwarderAdd(r)

SpecUnblock ==
  InitServing /\ [][NextUnblock]_vars /\ \A r \in Req : WF_vars(ForwarderAdd(r))

\* From construction on: NewStack with any outcome, then pool swaps and
\* forwarder activations.
NextPolicy ==
  \/ \E p \in PoolRefs, o \in Outcomes : NewStack(p, o)
  \/ \E p \in PoolRefs : SetConnPool(p)
  \/ \E r \in Req : TcpArrive(r)
  \/ \E r \in Req : UdpArrive(r)
  \/ \E r \in Req : ForwarderCheck(r)
  \/ \E r \in Req : ForwarderAdd(r)

SpecPolicy == Init /\ [][NextPolicy]_vars

\* Concurrent CompileAgent calls of the asset service.
SetupOutcomes == {"ok", "MkdirFailed", "MkdirSubdirFailed"}
RenderOutcomes == {"ok", "TemplateFailed", "WriteFailed"}

NextCompile ==
  \/ \E b \in Builds, valid \in BOOLEAN : CompileValidate(b, valid)
  \/ \E b \in Builds, o \in SetupOutcomes : SetupAgentDir(b, o)
  \/ \E b \in Builds, o \in RenderOutcomes : RenderAgent(b, o)
  \/ \E b \in Builds, ok \in BOOLEAN : GoBuild(b, ok)
  \/ \E b \in Builds, ok \in BOOLEAN : ReadBinary(b, ok)
  \/ \E b \in Builds, ok \in BOOLEAN : RemoveAgentDir(b, ok)

SpecCompile == Init /\ [][NextCompile]_vars

\* ------------------------------------------------------- properties
InQueue(p, r) == \E i \in 1..Len(pools[p].queue) : pools[p].queue[i] = r

Occurrences(p, r) == Cardinality({i \in 1..Len(pools[p].queue) : pools[p].queue[i] = r})

\* The pools that hold r, queued or handed to their consumer.
Holders(r) == {p \in Pools : InQueue(p, r) \/ delivered[r] = p}

\* C1: once a pool is closed it stays closed, every Add on it returns
\* PoolClosed, its queue gains nothing and its consumer receives nothing more;
\* closing leaves the requests already delivered as they were.
C1_ClosedPoolRejects ==
  [][\A p \in Pools :
       /\ pools[p].closed =>
            /\ pools'[p].closed
            /\ pools'[p].queue = pools[p].queue
            /\ \A r \in Req : delivered'[r] = p => delivered[r] = p
            /\ \A r \in Req :
                 (pc[r] = "add" /\ pc'[r] = "done" /\ s_pool = p)
                   => result'[r] = "PoolClosed"
       /\ (~pools[p].closed /\ pools'[p].closed) =>
            /\ delivered' = delivered
            /\ completeCalls' = completeCalls
            /\ inFlight' = inFlight]_vars

\* C1 witness: an Add was refused by a closed pool whose consumer had already
\* received a request before the close.
C1_Witness ==
  \E r, q \in Req :
    /\ result[r] = "PoolClosed"
    /\ delivered[q] # NilPool /\ pools[delivered[q]].closed

\* C2: every request whose Add succeeded is held by exactly one pool, once,
\* and that pool is the one s.pool referred to when it was added; a request
\* whose Add did not succeed is held by no pool.
C2_OnePoolPerRequest ==
  \A r \in Req :
    IF result[r] = "added"
      THEN /\ addedTo[r] \in Pools
           /\ addedTo[r] = activeAtAdd[r]
           /\ Holders(r) = {addedTo[r]}
           /\ Occurrences(addedTo[r], r) = (IF delivered[r] = NilPool THEN 1 ELSE 0)
      ELSE Holders(r) = {}

\* C2 witness: after a swap, two requests are held by two different pools.
C2_Witness ==
  \E r, q \in Req :
    /\ result[r] = "added" /\ result[q] = "added"
    /\ addedTo[r] # addedTo[q]

\* TCP requests that arrived at the forwarder and were not completed.
Outstanding == {r \in Req : proto[r] = "tcp" /\ completeCalls[r] = 0}

\* C3: at most MaxInflight TCP requests exist between arrival and completion,
\* so with MaxInflight of them outstanding no further one can reach a pool.
C3_InflightCap == Cardinality(Outstanding) <= MaxInflight

\* C3 witness: a SYN that was ignored at the cap reached a pool after another
\* request had been completed by Terminate.
C3_Witness ==
  \E r, q \in Req :
    /\ r \in synIgnored /\ proto[r] = "tcp" /\ result[r] = "added"
    /\ proto[q] = "tcp" /\ completeCalls[q] > 0

\* C4: whatever the number of Terminate calls on a request, the underlying
\* forwarder request is completed at most once.
C4_CompleteOnce == \A r \in Req : completeCalls[r] <= 1

\* C5: a callback that finds s.pool nil or closed returns at once: the request
\* is dropped, no pool changes and nothing is completed; a dropped request is
\* held by no pool and was never completed.
C5_DropWithoutReply ==
  [][\A r \in Req :
       /\ (pc[r] = "lock" /\ pc'[r] # "lock"
            /\ (s_pool = NilPool \/ pools[s_pool].closed))
          => /\ pc'[r] = "done" /\ result'[r] = "dropped"
             /\ pools' = pools
             /\ completeCalls' = completeCalls
       /\ result'[r] = "dropped" =>
            /\ \A p \in Pools : ~InQueue(p, r)'
            /\ delivered'[r] = NilPool
            /\ completeCalls'[r] = 0]_vars

\* C5 witness: a TCP and a UDP request were both dropped.
C5_Witness ==
  \E r, q \in Req :
    /\ result[r] = "dropped" /\ proto[r] = "tcp"
    /\ result[q] = "dropped" /\ proto[q] = "udp"

\* C6: a TCP request whose Add returned PoolClosed has been terminated by the
\* time its callback returns.
C6_RefusedRequestTerminated ==
  \A r \in Req :
    (pc[r] = "done" /\ result[r] = "PoolClosed" /\ proto[r] = "tcp")
      => completeCalls[r] >= 1

\* C7: a failed construction returns no stack handle and leaves no interface
\* descriptor open.
C7_AllOrNothing ==
  built \notin {"none", "ok"} => (~handle /\ fd # "open")

\* C8: a Destroy call entered after an earlier Destroy has returned nil does not
\* signal the stop channel again: it does not go to the stop signal, where the
\* stopped responder would leave it waiting.
C8_RepeatedDestroyReturns ==
  [][\A d \in Calls :
       (dpc[d] = "idle" /\ dpc'[d] # "idle"
          /\ \E e \in Calls : dpc[e] = "done" /\ dret[e] = "nil")
         => ~(dpc'[d] = "signal" /\ responder' = "stopped")]_vars

\* C9: the descriptor is closed only after the responder has stopped, the
\* engine is released only after the descriptor is closed, and the responder
\* never writes to the interface once the descriptor is closed.
C9_TeardownOrder ==
  /\ fd = "closed" => responder = "stopped"
  /\ engine = "destroyed" => fd = "closed"
  /\ ~lateWrite

\* C9 witness: a stack that answered an echo request was torn down completely.
C9_Witness ==
  /\ echoes > 0 /\ engine = "destroyed"
  /\ \E d \in Calls : dpc[d] = "done" /\ dret[d] = "nil"

\* C10: a step that changes s.pool changes no pool and no delivery, and a
\* pool's queue grows only while it is the active pool.
C10_SwapOnlyRedirects ==
  [][/\ s_pool' # s_pool => (pools' = pools /\ delivered' = delivered)
     /\ \A p \in Pools :
          Len(pools'[p].queue) > Len(pools[p].queue) => p = s_pool]_vars

\* C10 witness: after a swap the superseded pool, still open, keeps its
\* unclaimed request while a new flow has been queued in the active pool.
C10_Witness ==
  \E a, b \in Pools :
    /\ a # b /\ s_pool = b
    /\ pools[a].queue # <<>> /\ ~pools[a].closed
    /\ pools[b].queue # <<>>

\* C11: no callback holds the NetStack mutex while its Add waits on a full
\* pool, so a SetConnPool call can always take the mutex whatever the fill
\* level of the active pool and whether or not a consumer drains it.
C11_SwapNeverWaitsOnPool ==
  \A r \in Req :
    (pc[r] = "add" /\ mutex = r)
      => (pools[s_pool].closed \/ Len(pools[s_pool].queue) < PoolCap)

\* C12: an echo request is answered by the responder and changes no pool, no
\* delivery and no callback; every request held by a pool, queued or handed
\* to a consumer, came from the TCP or the UDP forwarder and carries the TCP
\* or the UDP protocol tag.
C12_EchoNeverPooled ==
  /\ [](\A r \in Req :
          Holders(r) # {} =>
            (proto[r] \in {"tcp", "udp"} /\ tag[r] \in {"tcp", "udp"}))
  /\ [][(echoes' # echoes \/ (responder = "replying" /\ responder' = "running"))
          => (pools' = pools /\ delivered' = delivered /\ pc' = pc
                /\ result' = result)]_vars

\* C12 witness: the responder has answered an echo request while a pool
\* holds a TCP and a UDP request.
C12_Witness ==
  /\ echoes > 0 /\ responder = "running"
  /\ \E r, q \in Req :
       /\ Holders(r) # {} /\ tag[r] = "tcp"
       /\ Holders(q) # {} /\ tag[q] = "udp"

\* C13: a callback that is in Add on a closed pool, however full, returns with
\* PoolClosed and leaves the NetStack mutex free for the next callback or
\* SetConnPool call; no callback stays in Add on a closed pool forever.
C13_CloseUnblocksAdd ==
  \A r \in Req :
    (pc[r] = "add" /\ mutex = r /\ pools[s_pool].closed)
      ~> (pc[r] = "done" /\ result[r] = "PoolClosed" /\ mutex = NoOwner)

\* C13 witness: Add returned PoolClosed and every closed pool is full, so the
\* callback had been waiting for room when its pool was closed.
C13_Witness ==
  /\ \E r \in Req : result[r] = "PoolClosed" /\ pc[r] = "done"
  /\ mutex = NoOwner
  /\ \A p \in Pools : pools[p].closed => Len(pools[p].queue) = PoolCap

KindsTrue(r) ==
  (IF IsTCP(r) THEN 1 ELSE 0) + (IF IsUDP(r) THEN 1 ELSE 0)
    + (IF IsICMP(r) THEN 1 ELSE 0)

\* C15: for every request held by a pool, queued or handed to a consumer,
\* exactly one of IsTCP, IsUDP, IsICMP is true and the accessor of that kind
\* succeeds: the handler variant is the one its protocol tag names, TCPConn
\* with the TCP tag and UDPConn with the UDP tag.
C15_TagMatchesHandler ==
  \A r \in Req :
    Holders(r) # {} =>
      /\ KindsTrue(r) = 1
      /\ IsTCP(r) => GetTCP(r)
      /\ IsUDP(r) => GetUDP(r)
      /\ IsICMP(r) => GetICMP(r)
      /\ (IsTCP(r) /\ proto[r] = "tcp") \/ (IsUDP(r) /\ proto[r] = "udp")

\* C15 witness: consumers hold a TCP request and a UDP request.
C15_Witness ==
  \E r, q \in Req :
    /\ delivered[r] # NilPool /\ IsTCP(r) /\ GetTCP(r)
    /\ delivered[q] # NilPool /\ IsUDP(q) /\ GetUDP(q)

\* C16: a Terminate call on a request that is not TCP, with either value of
\* reset, completes no forwarder request and leaves the inflight table, the
\* request, every pool and every delivery as they were.
C16_TerminateNonTcpNoEffect ==
  [][\A r \in Req :
       (terminateCalls'[r] # terminateCalls[r] /\ ~IsTCP(r))
         => /\ completeCalls' = completeCalls
            /\ inFlight' = inFlight
            /\ tag' = tag /\ proto' = proto /\ result' = result
            /\ pools' = pools /\ delivered' = delivered
            /\ s_pool' = s_pool /\ mutex' = mutex]_vars

\* C16 witness: Terminate was called twice on a UDP request a consumer holds.
C16_Witness ==
  \E r \in Req :
    IsUDP(r) /\ delivered[r] # NilPool /\ terminateCalls[r] >= 2

\* C17: a Destroy call that returned an error returned it with the responder
\* stopped; and once a Destroy call has returned, with nil or with an error,
\* the engine has been released and no pool receives a further request.
C17_UnusableAfterDestroy ==
  /\ [](\A d \in Calls :
          (dpc[d] = "done" /\ dret[d] = "err") => responder = "stopped")
  /\ [](\A d \in Calls : dpc[d] = "done" => engine = "destroyed")
  /\ [][(\E d \in Calls : dpc[d] = "done")
          => \A p \in Pools : Len(pools'[p].queue) <= Len(pools[p].queue)]_vars

\* C18: a TCP request the callback dropped, because s.pool was nil or closed,
\* occupies no inflight slot once the callback has returned, so drops never
\* use up the forwarder's cap and a later TCP flow can reach an open pool.
C18_DropFreesSlot ==
  \A r \in Req :
    (pc[r] = "done" /\ result[r] = "dropped" /\ proto[r] = "tcp")
      => r \notin inFlight

\* C19: when CompileAgent has returned the binary, a render failure, a build
\* failure or a failure reading the binary, the per-build agent directory, if
\* it was ever created, has been removed.
C19_NoAgentDirLeftBehind ==
  \A b \in Builds :
    (cpc[b] = "done"
       /\ cret[b] \in {"binary", "RenderFailed", "BuildFailed", "ReadFailed"})
      => cdir[b] \in {"none", "removed"}

====
